---------------------------- MODULE Spec2Model ----------------------------
(***************************************************************************)
(* InspectableWebContentsImpl (shell/browser/ui/                           *)
(* inspectable_web_contents_impl.cc): the session that binds a DevTools    *)
(* frontend document to an inspected target.                               *)
(*                                                                         *)
(* The fields of the object are the variables.  Every method is a function *)
(* from the object's state (a record, see Cur) to its state after the      *)
(* call, so that a method that calls another one is the composition the    *)
(* code performs.  What a call does to its collaborators (script executed  *)
(* in a frontend document, calls on the agent host, on the view and on the *)
(* delegates) is appended, in program order, to fx, the effects of the     *)
(* step that ran last.                                                     *)
(***************************************************************************)
EXTENDS Integers, Sequences, FiniteSets, TLC

\* ------------------------------------------------------------------ bounds

\* Longest protocol message the agent host emits in the model.
MaxMsgLen == 7

\* kMaxMessageChunkSize (IPC::Channel::kMaximumMessageSize / 4), scaled down.
kMaxMessageChunkSize == 3

\* Most calls of LoadNetworkResource with a valid URL in one behaviour.
MaxLoads == 1

\* The most chunks the attempts of one load receive where the stream the
\* frontend gets is recorded.
MaxChunks == 2

\* kInitialBackoffDelay and kMaxBackoffDelay, in microseconds, the unit of
\* base::TimeDelta.
kInitialBackoffDelay == 250000
kMaxBackoffDelay == 10000000

\* ------------------------------------------------------------- value sets

\* The null pointer / the empty unique_ptr.
Null == "nullptr"

\* The document created by content::WebContents::Create in ShowDevTools.
ManagedDoc == "managed"

\* Documents the embedder can supply through SetDevToolsWebContents.
ExternalDocs == {"ext1", "ext2"}

\* DevToolsAgentHost::GetOrCreateFor(web_contents_) and one other host.
TargetHost == "host1"
Hosts == {"host1", "host2"}

\* Bytes of a protocol message: "a" is an ordinary character and "dq" the
\* double quote, the character of a JSON protocol message that a JSON string
\* literal has to escape.  "bs" is the backslash.
\* The messages of the target: every length up to MaxMsgLen, with no double
\* quote or with one at any position, which also marks that position.
Messages ==
    {[i \in 1..n |-> IF i = q THEN "dq" ELSE "a"] : n \in 0..MaxMsgLen, q \in 0..MaxMsgLen}

\* ------------------------------------------------- JSON texts and script

\* A serialised base::Value as it appears in the script text.
JsonString(toks) == [t |-> "string", toks |-> toks, num |-> 0]
JsonInt(n) == [t |-> "int", toks |-> <<>>, num |-> n]
\* A nullptr argument of CallClientFunction.
NoArg == [t |-> "nullptr", toks |-> <<>>, num |-> 0]

\* base::EscapeJSONString: the characters of the string with the double
\* quote and the backslash escaped, inside double quotes when put_in_quotes.
RECURSIVE EscapeChars(_)
EscapeChars(str) ==
    IF str = <<>> THEN <<>>
    ELSE LET c == Head(str)
         IN  (IF c \in {"dq", "bs"} THEN <<"bs", c>> ELSE <<c>>) \o EscapeChars(Tail(str))

EscapeJSONString(str, put_in_quotes) ==
    IF put_in_quotes THEN <<"dq">> \o EscapeChars(str) \o <<"dq">>
    ELSE EscapeChars(str)

\* base::JSONWriter::Write of a string value.
JSONWriteString(str) == JsonString(EscapeJSONString(str, TRUE))

\* What the frontend's script engine makes of a string literal: the
\* characters between the quotes with the escapes undone.
RECURSIVE UnescapeChars(_)
UnescapeChars(toks) ==
    IF toks = <<>> THEN <<>>
    ELSE IF Head(toks) = "bs" /\ Len(toks) >= 2
         THEN <<toks[2]>> \o UnescapeChars(Tail(Tail(toks)))
         ELSE <<Head(toks)>> \o UnescapeChars(Tail(toks))

EvalStringLiteral(json) ==
    IF Len(json.toks) >= 2
    THEN UnescapeChars(SubSeq(json.toks, 2, Len(json.toks) - 1))
    ELSE <<>>

\* The protocol commands a frontend can send: a JSON object with any of the
\* fields id, method and params, in any order.  params is an empty object
\* or an object that itself has the fields id, method and params.
Keys == {"id:", "method:", "params:"}

NestedReload ==
    <<"{", "id:", "2", ",", "method:", "Page.reload", ",", "params:", "1", "}">>

ValuesOf(key) ==
    IF key = "id:" THEN {<<"1">>}
    ELSE IF key = "method:" THEN {<<"Page.reload">>, <<"Page.enable">>}
    ELSE {<<"{", "}">>, NestedReload}

RECURSIVE JoinFields(_)
JoinFields(fields) ==
    IF fields = <<>> THEN <<>>
    ELSE <<Head(fields).key>> \o Head(fields).val
         \o (IF Len(fields) > 1 THEN <<",">> \o JoinFields(Tail(fields)) ELSE <<>>)

\* JSON.stringify of the object with these fields.
Serialise(fields) == <<"{">> \o JoinFields(fields) \o <<"}">>

KeyOrders ==
    {q \in UNION {[1..n -> Keys] : n \in 0..Cardinality(Keys)} :
        \A i, j \in DOMAIN q : i # j => q[i] # q[j]}

ProtocolCommands ==
    {Serialise([i \in DOMAIN q |-> [key |-> q[i], val |-> v[q[i]]]]) :
        q \in KeyOrders,
        v \in {f \in [Keys -> UNION {ValuesOf(k) : k \in Keys}] : \A k \in Keys : f[k] \in ValuesOf(k)}}

\* One effect of a step on a collaborator.
\*   kind "js":       script executed in the main frame of document target
\*   kind "host":     call on the agent host target
\*   kind "view":     call on view_
\*   kind "delegate": call on delegate_ or on view_->GetDelegate()
\*   kind "contents": call on a WebContents (Focus, LoadURL)
Effect(kind, target, fn, args) ==
    [kind |-> kind, target |-> target, fn |-> fn, args |-> args]

BoolArg(b) == JsonString(<<IF b THEN "true" ELSE "false">>)


\* base::Value arguments handed to CallClientFunction.
StringValue(str) == [t |-> "string", toks |-> str, num |-> 0]
IntValue(n) == [t |-> "int", toks |-> <<>>, num |-> n]
BoolValue(b) == [t |-> "bool", toks |-> <<IF b THEN "true" ELSE "false">>, num |-> 0]

\* A base::DictionaryValue with the key "statusCode" and, when has_headers,
\* the key "headers": num is the status code and toks the names and values
\* of the headers dictionary, after the mark "headers:".
DictValue(code, has_headers, pairs) ==
    [t |-> "dict", toks |-> IF has_headers THEN <<"headers:">> \o pairs ELSE <<>>, num |-> code]

\* base::JSONWriter::Write.
JSONWrite(v) ==
    IF v.t = "string" THEN JSONWriteString(v.toks)
    ELSE IF v.t \in {"dict", "bool"} THEN v
    ELSE JsonInt(v.num)

\* ------------------------------------------------------------------ state

\* The record kept of one load: the bytes its current attempt has received
\* (body), how many chunks its attempts have received (chunks), the
\* streamWrite calls made in a frontend since the call of LoadNetworkResource
\* (writes), and how many of those came before the current attempt (first).
NoLog == [body |-> <<>>, chunks |-> 0, writes |-> <<>>, first |-> 0]

VARIABLES
    frontend_loaded_,                  \* bool
    can_dock_,                         \* bool
    dock_state_,                       \* std::string
    activate_,                         \* bool
    managed_devtools_web_contents_,    \* unique_ptr<WebContents>: Null or ManagedDoc
    external_devtools_web_contents_,   \* WebContents*: Null or an external document
    embedder_message_dispatcher_,      \* unique_ptr: TRUE when it holds a dispatcher
    agent_host_,                       \* scoped_refptr<DevToolsAgentHost>: Null or a host
    delegate_,                         \* InspectableWebContentsDelegate*: TRUE when set
    is_guest_,                         \* bool, fixed at construction
    observed,                          \* WebContentsObserver::web_contents()
    clients,                           \* the hosts that hold this session as a client
    loaders_,                          \* std::set<unique_ptr<NetworkResourceLoader>>
    loads_started,                     \* history: calls of LoadNetworkResource that created a loader
    closed_notified,                   \* history: WebContentsDestroyed has run since a frontend was last opened
    stream_log,                        \* history: the body of a load and what the frontend got of it
    fx,                                \* effects of the last step, in program order
    fault,                             \* function of the last step that dereferenced a null frontend
    crashed,                           \* the process died of such a dereference
    op                                 \* the last step and its input

vars ==
    <<frontend_loaded_, can_dock_, dock_state_, activate_,
      managed_devtools_web_contents_, external_devtools_web_contents_,
      embedder_message_dispatcher_, agent_host_, delegate_, is_guest_,
      observed, clients, loaders_, loads_started, closed_notified, stream_log, fx, fault,
      crashed, op>>

\* The object's state at the start of a step: nothing done yet.
Cur ==
    [loaded |-> frontend_loaded_, can_dock |-> can_dock_, dock_state |-> dock_state_,
     activate |-> activate_, managed |-> managed_devtools_web_contents_,
     external |-> external_devtools_web_contents_,
     dispatcher |-> embedder_message_dispatcher_, agent_host |-> agent_host_,
     delegate |-> delegate_, is_guest |-> is_guest_, observed |-> observed,
     clients |-> clients, loaders |-> loaders_, loads |-> loads_started,
     log |-> stream_log, fx |-> <<>>, fault |-> ""]

\* The state a step leaves behind.  A dereference of a null frontend is
\* undefined behaviour: the process dies of it or goes on.
Commit(s) ==
    /\ frontend_loaded_' = s.loaded
    /\ can_dock_' = s.can_dock
    /\ dock_state_' = s.dock_state
    /\ activate_' = s.activate
    /\ managed_devtools_web_contents_' = s.managed
    /\ external_devtools_web_contents_' = s.external
    /\ embedder_message_dispatcher_' = s.dispatcher
    /\ agent_host_' = s.agent_host
    /\ delegate_' = s.delegate
    /\ is_guest_' = s.is_guest
    /\ observed' = s.observed
    /\ clients' = s.clients
    /\ loaders_' = s.loaders
    /\ loads_started' = s.loads
    /\ closed_notified' =
          (IF \E i \in 1..Len(s.fx) : s.fx[i].fn = "DevToolsClosed" THEN TRUE
           ELSE IF \E i \in 1..Len(s.fx) : s.fx[i].fn = "LoadURL" THEN FALSE
           ELSE closed_notified)
    /\ stream_log' = s.log
    /\ fx' = s.fx
    /\ fault' = s.fault
    /\ crashed' \in (IF s.fault = "" THEN {FALSE} ELSE BOOLEAN)

Emit(s, e) == [s EXCEPT !.fx = Append(@, e)]

\* The stored preference "currentDockState" of kDevToolsPreferences.
PrefDockState == "bottom"

\* ------------------------------------------------------- the session

GetDevToolsWebContents(s) ==
    IF s.external # Null THEN s.external ELSE s.managed

SetDockState(s, state) ==
    IF state = "detach"
    THEN [s EXCEPT !.can_dock = FALSE]
    ELSE [s EXCEPT !.can_dock = TRUE, !.dock_state = state]

SetDevToolsWebContents(s, devtools) ==
    IF s.managed = Null THEN [s EXCEPT !.external = devtools] ELSE s

Detach(s) ==
    IF s.agent_host # Null
    THEN [Emit(s, Effect("host", s.agent_host, "DetachClient", <<>>))
            EXCEPT !.clients = @ \ {s.agent_host}, !.agent_host = Null]
    ELSE [s EXCEPT !.agent_host = Null]

\* Faulty variant: the attachment before is not given up.
AttachToWithoutDetach(s, host) ==
    [Emit(s, Effect("host", host, "AttachClient", <<>>))
       EXCEPT !.agent_host = host, !.clients = @ \cup {host}]

AttachTo(s, host) ==
    LET d == Detach(s)
    IN  [Emit(d, Effect("host", host, "AttachClient", <<>>))
           EXCEPT !.agent_host = host, !.clients = @ \cup {host}]

\* Runs when the observed frontend document is destroyed.
WebContentsDestroyed(s) ==
    LET s1 == [s EXCEPT !.loaded = FALSE, !.external = Null, !.observed = Null]
        s2 == Detach(s1)
        s3 == [s2 EXCEPT !.dispatcher = FALSE]
    IN  Emit(s3, Effect("delegate", "view_delegate", "DevToolsClosed", <<>>))

\* Faulty variant: no test for a dispatcher, the frontend is opened again.
ShowDevToolsReopening(s, activate) ==
    LET s1 == [s EXCEPT !.activate = activate, !.dispatcher = TRUE]
        s2 == IF s1.external = Null THEN [s1 EXCEPT !.managed = ManagedDoc] ELSE s1
        s3 == [s2 EXCEPT !.observed = GetDevToolsWebContents(s2)]
        s4 == AttachTo(s3, TargetHost)
    IN  Emit(s4, Effect("contents", GetDevToolsWebContents(s4), "LoadURL",
                        <<BoolArg(s4.can_dock)>>))

ShowDevTools(s, activate) ==
    IF s.dispatcher
    THEN IF s.managed # Null
         THEN Emit(s, Effect("view", "view_", "ShowDevTools", <<BoolArg(activate)>>))
         ELSE s
    ELSE LET s1 == [s EXCEPT !.activate = activate, !.dispatcher = TRUE]
             s2 == IF s1.external = Null THEN [s1 EXCEPT !.managed = ManagedDoc] ELSE s1
             s3 == [s2 EXCEPT !.observed = GetDevToolsWebContents(s2)]
             s4 == AttachTo(s3, TargetHost)
         IN  Emit(s4, Effect("contents", GetDevToolsWebContents(s4), "LoadURL",
                             <<BoolArg(s4.can_dock)>>))

\* managed_devtools_web_contents_.reset(): the pointer is cleared, then the
\* document is destroyed, which notifies its observer.
ResetManaged(s) ==
    LET doc == s.managed
        s1 == [s EXCEPT !.managed = Null]
    IN  IF doc # Null /\ s1.observed = doc THEN WebContentsDestroyed(s1) ELSE s1

\* Faulty variant: no test for a frontend.
CloseDevToolsUnguarded(s) ==
    LET s1 == [s EXCEPT !.loaded = FALSE]
        s2 == IF s1.managed # Null
              THEN ResetManaged(Emit(s1, Effect("view", "view_", "CloseDevTools", <<>>)))
              ELSE s1
        s3 == [s2 EXCEPT !.dispatcher = FALSE]
    IN  IF ~s3.is_guest
        THEN Emit(s3, Effect("contents", "web_contents_", "Focus", <<>>))
        ELSE s3

CloseDevTools(s) ==
    IF GetDevToolsWebContents(s) # Null
    THEN LET s1 == [s EXCEPT !.loaded = FALSE]
             s2 == IF s1.managed # Null
                   THEN ResetManaged(Emit(s1, Effect("view", "view_", "CloseDevTools", <<>>)))
                   ELSE s1
             s3 == [s2 EXCEPT !.dispatcher = FALSE]
         IN  IF ~s3.is_guest
             THEN Emit(s3, Effect("contents", "web_contents_", "Focus", <<>>))
             ELSE s3
    ELSE s

\* ~InspectableWebContentsImpl: WebContentsDestroyed() is called when there
\* is a frontend; the members are destroyed after the body, the managed
\* document among them, which is no longer observed then.
Destructor(s) ==
    IF GetDevToolsWebContents(s) # Null
    THEN LET s1 == IF s.managed # Null
                   THEN Emit(s, Effect("contents", s.managed, "SetDelegate", <<>>))
                   ELSE s
             s2 == WebContentsDestroyed(s1)
         IN  [ResetManaged(s2) EXCEPT !.loaders = {}]
    ELSE [ResetManaged(s) EXCEPT !.loaders = {}]

\* arg1..arg3 are base::Value pointers; a later one is written only when
\* the ones before it are there.
CallClientFunction(s, function_name, arg1, arg2, arg3) ==
    IF GetDevToolsWebContents(s) = Null THEN s
    ELSE LET args == IF arg1 = NoArg THEN <<>>
                     ELSE IF arg2 = NoArg THEN <<JSONWrite(arg1)>>
                     ELSE IF arg3 = NoArg THEN <<JSONWrite(arg1), JSONWrite(arg2)>>
                     ELSE <<JSONWrite(arg1), JSONWrite(arg2), JSONWrite(arg3)>>
         IN  Emit(s, Effect("js", GetDevToolsWebContents(s), function_name, args))

\* GetDevToolsWebContents()->GetMainFrame()->ExecuteJavaScript(...) with no
\* test of the pointer.
ExecuteInFrontend(s, caller, function_name, args) ==
    IF GetDevToolsWebContents(s) = Null
    THEN [s EXCEPT !.fault = caller]
    ELSE Emit(s, Effect("js", GetDevToolsWebContents(s), function_name, args))

SendMessageAck(s, request_id, arg) ==
    CallClientFunction(s, "DevToolsAPI.embedderMessageAck", IntValue(request_id), arg, NoArg)

\* A DispatchCallback: null, or SendMessageAck bound to a request id.
NoCallback == [is_null |-> TRUE, id |-> 0]
AckCallback(id) == [is_null |-> FALSE, id |-> id]

\* callback.Run(arg), where the callback is tested for null before it is run.
RunCallback(s, callback, arg) ==
    IF callback.is_null THEN s
    ELSE SendMessageAck(Emit(s, Effect("callback", "SendMessageAck", "Run",
                                       <<JsonInt(callback.id)>>
                                       \o (IF arg = NoArg THEN <<>> ELSE <<JSONWrite(arg)>>))),
                        callback.id, arg)

\* Faulty variant: the callback is run only when the session is attached.
ReattachAckOnlyWhenAttached(s, callback) ==
    IF s.agent_host # Null
    THEN RunCallback(Emit(Emit(s, Effect("host", s.agent_host, "DetachClient", <<>>)),
                          Effect("host", s.agent_host, "AttachClient", <<>>)),
                     callback, NoArg)
    ELSE s

Reattach(s, callback) ==
    LET s1 == IF s.agent_host # Null
              THEN Emit(Emit(s, Effect("host", s.agent_host, "DetachClient", <<>>)),
                        Effect("host", s.agent_host, "AttachClient", <<>>))
              ELSE s
    IN  RunCallback(s1, callback, NoArg)

SetIsDocked(s, callback, docked) ==
    LET s1 == IF s.managed # Null
              THEN Emit(s, Effect("view", "view_", "SetIsDocked",
                                  <<BoolArg(docked), BoolArg(s.activate)>>))
              ELSE s
    IN  RunCallback(s1, callback, NoArg)

LoadCompleted(s) ==
    LET s1 == [s EXCEPT !.loaded = TRUE]
        s2 == IF s1.managed # Null
              THEN Emit(s1, Effect("view", "view_", "ShowDevTools", <<BoolArg(s1.activate)>>))
              ELSE s1
        s3 == IF ~s2.can_dock
              THEN SetIsDocked(s2, NoCallback, FALSE)
              ELSE LET d == IF s2.dock_state = ""
                            THEN [s2 EXCEPT !.dock_state = PrefDockState]
                            ELSE s2
                   IN  ExecuteInFrontend(d, "LoadCompleted",
                                         "Components.dockController.setDockSide",
                                         <<JsonString(<<d.dock_state>>)>>)
    IN  Emit(s3, Effect("delegate", "view_delegate", "DevToolsOpened", <<>>))

\* ------------------------------------------------ NetworkResourceLoader

\* The URLs a frontend asks for, one string each: GURL parses the first two,
\* the second has the scheme "file".
ValidURLs == {<<"https://a/x.map">>, <<"file:///x.map">>}
URLs == ValidURLs \cup {<<"not a url">>}

SchemeIsFile(url) == url = <<"file:///x.map">>

\* net::HttpResponseHeaders: the response code and the header lines in the
\* order received; NoHeaders is the null scoped_refptr.
NoHeaders == [present |-> FALSE, code |-> 0, lines |-> <<>>]
HttpResponseHeaders(code, lines) == [present |-> TRUE, code |-> code, lines |-> lines]
HeaderLine(name, value) == [name |-> name, value |-> value]

\* The heads a response can start with.
ResponseHeads ==
    {NoHeaders,
     HttpResponseHeaders(200, <<HeaderLine("Content-Type", "x")>>),
     HttpResponseHeaders(404, <<HeaderLine("Set-Cookie", "a"), HeaderLine("Content-Type", "x"),
                                HeaderLine("Set-Cookie", "b")>>)}

\* The outcomes of a fetch attempt: success and loader_->NetError().
FetchResults ==
    {[success |-> TRUE, net_error |-> "OK"],
     [success |-> FALSE, net_error |-> "ERR_INSUFFICIENT_RESOURCES"],
     [success |-> FALSE, net_error |-> "ERR_FAILED"]}

\* Body chunks: "a" and "dq" are ASCII characters, "xff" is the byte 0xFF,
\* which no UTF-8 text contains.
BodyChunks == {<<"a", "dq">>, <<"a", "xff", "a", "a">>}

ByteValue(b) == IF b = "xff" THEN 255 ELSE IF b = "dq" THEN 34 ELSE IF b = "bs" THEN 92 ELSE 97

base64_chars ==
    <<"A", "B", "C", "D", "E", "F", "G", "H", "I", "J", "K", "L", "M", "N", "O", "P",
      "Q", "R", "S", "T", "U", "V", "W", "X", "Y", "Z", "a", "b", "c", "d", "e", "f",
      "g", "h", "i", "j", "k", "l", "m", "n", "o", "p", "q", "r", "s", "t", "u", "v",
      "w", "x", "y", "z", "0", "1", "2", "3", "4", "5", "6", "7", "8", "9", "+", "/">>

\* base::Base64Encode: three bytes give four characters, "=" pads the end.
RECURSIVE Base64Encode(_)
Base64Encode(bytes) ==
    IF bytes = <<>> THEN <<>>
    ELSE LET n == IF Len(bytes) >= 3 THEN 3 ELSE Len(bytes)
             v == ByteValue(bytes[1]) * 65536
                    + (IF n >= 2 THEN ByteValue(bytes[2]) * 256 ELSE 0)
                    + (IF n = 3 THEN ByteValue(bytes[3]) ELSE 0)
         IN  <<base64_chars[(v \div 262144) + 1],
               base64_chars[((v \div 4096) % 64) + 1],
               IF n >= 2 THEN base64_chars[((v \div 64) % 64) + 1] ELSE "=",
               IF n = 3 THEN base64_chars[(v % 64) + 1] ELSE "=">>
             \o Base64Encode(SubSeq(bytes, n + 1, Len(bytes)))

IsStringUTF8(chunk) == \A i \in 1..Len(chunk) : chunk[i] # "xff"

\* A NetworkResourceLoader.  load numbers the call of LoadNetworkResource it
\* works for (a retry is a new loader for the same call).  phase is the
\* position of its fetch: "timer" until timer_ fires, "fetch" after
\* DownloadAsStream, "response" after OnResponseStarted.
Loader(load, stream_id, callback, delay) ==
    [load |-> load, stream_id |-> stream_id, callback |-> callback, retry_delay |-> delay,
     phase |-> "timer", response_headers |-> NoHeaders]

NoLoader == Loader(0, 0, NoCallback, 0)

\* NetworkResourceLoader::Create with the constructor: the loader is put
\* into loaders_ and its timer started with its delay.
Create(s, load, stream_id, callback, retry_delay) ==
    [Emit(s, Effect("timer", "timer_", "Start", <<JsonInt(stream_id), JsonInt(retry_delay)>>))
       EXCEPT !.loaders = @ \cup {Loader(load, stream_id, callback, retry_delay)}]

DownloadAsStream(s, l) ==
    [Emit(s, Effect("loader", "loader_", "DownloadAsStream", <<JsonInt(l.stream_id)>>))
       EXCEPT !.loaders = (@ \ {l}) \cup {[l EXCEPT !.phase = "fetch"]}]

\* Faulty variant: a delay that is not 0 stays as it is.
GetNextExponentialBackoffDelayNotGrowing(delta) ==
    IF delta = 0 THEN kInitialBackoffDelay ELSE delta

\* Faulty variant: the delay does not grow.
GetNextExponentialBackoffDelayConstant(delta) ==
    kInitialBackoffDelay

\* delta * 1.3 is a base::TimeDelta again: whole microseconds, the fraction
\* dropped.
GetNextExponentialBackoffDelay(delta) ==
    IF delta = 0 THEN kInitialBackoffDelay ELSE (delta * 13) \div 10

OnResponseStarted(s, l, response_head) ==
    [s EXCEPT !.loaders = (@ \ {l}) \cup
                  {[l EXCEPT !.response_headers = response_head, !.phase = "response"]}]

\* Faulty variant: every chunk is sent as text.
OnDataReceivedNeverEncoded(s, l, chunk) ==
    CallClientFunction(s, "DevToolsAPI.streamWrite", IntValue(l.stream_id), StringValue(chunk),
                       BoolValue(FALSE))

OnDataReceived(s, l, chunk) ==
    LET encoded == ~IsStringUTF8(chunk)
        chunkValue == StringValue(IF encoded THEN Base64Encode(chunk) ELSE chunk)
    IN  CallClientFunction(s, "DevToolsAPI.streamWrite", IntValue(l.stream_id), chunkValue,
                           BoolValue(encoded))

\* base::DictionaryValue of header names and values: a function on the names
\* it has.  SetString replaces the value of a name that is there.
EmptyDict == [n \in {} |-> ""]
SetString(dict, name, value) ==
    [n \in DOMAIN dict \cup {name} |-> IF n = name THEN value ELSE dict[n]]

\* The loop over EnumerateHeaderLines.
RECURSIVE SetHeaders(_, _)
SetHeaders(dict, lines) ==
    IF lines = <<>> THEN dict
    ELSE SetHeaders(SetString(dict, Head(lines).name, Head(lines).value), Tail(lines))

\* The names and values of a dictionary in the order of its keys.
HeaderNames == <<"Content-Type", "Set-Cookie">>

RECURSIVE DictPairsFrom(_, _)
DictPairsFrom(dict, i) ==
    IF i > Len(HeaderNames) THEN <<>>
    ELSE (IF HeaderNames[i] \in DOMAIN dict
          THEN <<HeaderNames[i], dict[HeaderNames[i]]>>
          ELSE <<>>)
         \o DictPairsFrom(dict, i + 1)

\* The response OnComplete hands to the callback.
Response(l) ==
    DictValue(IF l.response_headers.present THEN l.response_headers.code ELSE 200,
              TRUE,
              DictPairsFrom(SetHeaders(EmptyDict, l.response_headers.lines), 1))

\* Faulty variant: a retried loader stays in the registry.
OnCompleteKeepingRetried(s, l, success, net_error) ==
    IF /\ ~success
       /\ net_error = "ERR_INSUFFICIENT_RESOURCES"
       /\ l.retry_delay < kMaxBackoffDelay
    THEN Create(s, l.load, l.stream_id, l.callback,
                GetNextExponentialBackoffDelay(l.retry_delay))
    ELSE [RunCallback(s, l.callback, Response(l)) EXCEPT !.loaders = @ \ {l}]

\* Faulty variant: the callback is run at the end of every attempt.
OnCompleteAckingEveryAttempt(s, l, success, net_error) ==
    LET s1 == RunCallback(s, l.callback, Response(l))
        s2 == IF /\ ~success
                 /\ net_error = "ERR_INSUFFICIENT_RESOURCES"
                 /\ l.retry_delay < kMaxBackoffDelay
              THEN Create(s1, l.load, l.stream_id, l.callback,
                          GetNextExponentialBackoffDelay(l.retry_delay))
              ELSE s1
    IN  [s2 EXCEPT !.loaders = @ \ {l}]

\* Faulty variant: every failed attempt is retried.
OnCompleteRetryingEveryFailure(s, l, success, net_error) ==
    LET s1 == IF ~success /\ l.retry_delay < kMaxBackoffDelay
              THEN Create(s, l.load, l.stream_id, l.callback,
                          GetNextExponentialBackoffDelay(l.retry_delay))
              ELSE RunCallback(s, l.callback, Response(l))
    IN  [s1 EXCEPT !.loaders = @ \ {l}]

OnComplete(s, l, success, net_error) ==
    LET s1 == IF /\ ~success
                 /\ net_error = "ERR_INSUFFICIENT_RESOURCES"
                 /\ l.retry_delay < kMaxBackoffDelay
              THEN Create(s, l.load, l.stream_id, l.callback,
                          GetNextExponentialBackoffDelay(l.retry_delay))
              ELSE RunCallback(s, l.callback, Response(l))
    IN  [s1 EXCEPT !.loaders = @ \ {l}]

\* Faulty variant: the URL is not checked.
LoadNetworkResourceUnvalidated(s, callback, url, headers, stream_id) ==
    LET s1 == IF ~SchemeIsFile(url) /\ GetDevToolsWebContents(s) = Null
              THEN [s EXCEPT !.fault = "LoadNetworkResource"]
              ELSE s
    IN  Create([s1 EXCEPT !.loads = @ + 1], s1.loads + 1, stream_id, callback, 0)

LoadNetworkResource(s, callback, url, headers, stream_id) ==
    IF url \notin ValidURLs
    THEN RunCallback(s, callback, DictValue(404, FALSE, <<>>))
    ELSE LET s1 == IF ~SchemeIsFile(url) /\ GetDevToolsWebContents(s) = Null
                   THEN [s EXCEPT !.fault = "LoadNetworkResource"]
                   ELSE s
         IN  Create([s1 EXCEPT !.loads = @ + 1], s1.loads + 1, stream_id, callback, 0)

\* str_message.substr(pos, n), pos counted from 0.
Substr(str, pos, n) ==
    SubSeq(str, pos + 1, IF pos + n < Len(str) THEN pos + n ELSE Len(str))

\* Faulty variant of the loop: the position advances one byte too far, so a
\* byte between two chunks is lost.
RECURSIVE DispatchChunksLosingBytes(_, _, _)
DispatchChunksLosingBytes(s, message, pos) ==
    IF pos < Len(message)
    THEN LET message_value == StringValue(Substr(message, pos, kMaxMessageChunkSize))
             total_size == IntValue(Len(message))
             s1 == CallClientFunction(s, "DevToolsAPI.dispatchMessageChunk", message_value,
                                      IF pos # 0 THEN NoArg ELSE total_size, NoArg)
         IN  DispatchChunksLosingBytes(s1, message, pos + kMaxMessageChunkSize + 1)
    ELSE s

\* Faulty variant of the loop: every chunk carries the total size.
RECURSIVE DispatchChunksAlwaysSized(_, _, _)
DispatchChunksAlwaysSized(s, message, pos) ==
    IF pos < Len(message)
    THEN LET message_value == StringValue(Substr(message, pos, kMaxMessageChunkSize))
             total_size == IntValue(Len(message))
             s1 == CallClientFunction(s, "DevToolsAPI.dispatchMessageChunk", message_value,
                                      total_size, NoArg)
         IN  DispatchChunksAlwaysSized(s1, message, pos + kMaxMessageChunkSize)
    ELSE s

\* The loop of DispatchProtocolMessage from position pos on.
RECURSIVE DispatchChunks(_, _, _)
DispatchChunks(s, message, pos) ==
    IF pos < Len(message)
    THEN LET message_value == StringValue(Substr(message, pos, kMaxMessageChunkSize))
             total_size == IntValue(Len(message))
             s1 == CallClientFunction(s, "DevToolsAPI.dispatchMessageChunk", message_value,
                                      IF pos # 0 THEN NoArg ELSE total_size, NoArg)
         IN  DispatchChunks(s1, message, pos + kMaxMessageChunkSize)
    ELSE s

\* Faulty variant: a message of exactly kMaxMessageChunkSize bytes is not
\* split.
DispatchProtocolMessageUpToChunkSize(s, message) ==
    IF ~s.loaded THEN s
    ELSE IF Len(message) <= kMaxMessageChunkSize
         THEN ExecuteInFrontend(s, "DispatchProtocolMessage", "DevToolsAPI.dispatchMessage",
                                <<JsonString(EscapeJSONString(message, TRUE))>>)
         ELSE DispatchChunks(s, message, 0)

\* A protocol message of the target, on its way to the frontend.
DispatchProtocolMessage(s, message) ==
    IF ~s.loaded THEN s
    ELSE IF Len(message) < kMaxMessageChunkSize
         THEN ExecuteInFrontend(s, "DispatchProtocolMessage", "DevToolsAPI.dispatchMessage",
                                <<JsonString(EscapeJSONString(message, TRUE))>>)
         ELSE DispatchChunks(s, message, 0)

\* --------------------------------------------- frontend to target

\* The text of a protocol command is a sequence of tokens:
\*   "{" "}" ","          the punctuation of a JSON object
\*   "id:" "method:" "params:"   a quoted key with its colon
\*   "Page.reload" "Page.enable" a quoted method name
\*   "1" "2"              numbers
\* and "*" in a pattern is the wildcard of base::MatchPattern.
RECURSIVE MatchPattern(_, _)
MatchPattern(str, pattern) ==
    IF pattern = <<>> THEN str = <<>>
    ELSE IF Head(pattern) = "*"
         THEN \E k \in 0..Len(str) : MatchPattern(SubSeq(str, k + 1, Len(str)), Tail(pattern))
         ELSE /\ str # <<>>
              /\ Head(str) = Head(pattern)
              /\ MatchPattern(Tail(str), Tail(pattern))

\* "{\"id\":*,\"method\":\"Page.reload\",\"params\":*}"
ReloadPattern ==
    <<"{", "id:", "*", ",", "method:", "Page.reload", ",", "params:", "*", "}">>

DispatchProtocolMessageFromDevToolsFrontend(s, message) ==
    IF MatchPattern(message, ReloadPattern)
    THEN IF s.delegate
         THEN Emit(s, Effect("delegate", "delegate_", "DevToolsReloadPage", <<>>))
         ELSE s
    ELSE IF s.agent_host # Null
         THEN Emit(s, Effect("host", s.agent_host, "DispatchProtocolMessage",
                             <<JsonString(message)>>))
         ELSE s

\* The message handed to HandleMessageFromDevToolsFrontend, as
\* base::JSONReader reads it: kind "invalid" is text that does not parse,
\* kind "list" a value that is no dictionary, kind "dict" a dictionary with
\* the keys "id", "method" and "params", each absent or a value of type t.
FieldAbsent == [t |-> "absent", s |-> "", l |-> <<>>, n |-> 0]
FieldInt(n) == [t |-> "int", s |-> "", l |-> <<>>, n |-> n]
FieldString(str) == [t |-> "string", s |-> str, l |-> <<>>, n |-> 0]
FieldList(l) == [t |-> "list", s |-> "", l |-> l, n |-> 0]
FieldDict == [t |-> "dict", s |-> "", l |-> <<>>, n |-> 0]

RawMessage(kind, id, method, params) ==
    [kind |-> kind, id |-> id, method |-> method, params |-> params]

\* The JSON texts of the numbers 1, 2, ... and the number such a text
\* stands for.
NumberTexts == <<"1", "2", "3", "4">>
ParseInt(text) == CHOOSE i \in 1..Len(NumberTexts) : <<NumberTexts[i]>> = text

\* DevToolsEmbedderMessageDispatcher::Dispatch: the handler registered for
\* method runs when params holds the arguments it takes; a handler that
\* takes a callback gets callback, the others never run it.
Dispatch(s, callback, method, params) ==
    LET s1 == Emit(s, Effect("dispatcher", "embedder_message_dispatcher_", "Dispatch",
                             <<JsonInt(callback.id), JsonString(<<method>>)>>))
    IN  IF method = "loadCompleted" /\ Len(params) = 0 THEN LoadCompleted(s1)
        ELSE IF method = "reattach" /\ Len(params) = 0 THEN Reattach(s1, callback)
        ELSE IF method = "dispatchProtocolMessage" /\ Len(params) = 1
             THEN DispatchProtocolMessageFromDevToolsFrontend(s1, params[1])
        ELSE IF method = "loadNetworkResource" /\ Len(params) = 3
             THEN LoadNetworkResource(s1, callback, params[1], params[2], ParseInt(params[3]))
        ELSE s1

\* Faulty variant: "params" is not checked to be a list.
HandleMessageParamsUnchecked(s, message) ==
    IF ~s.dispatcher THEN s
    ELSE IF \/ message.kind = "invalid"
            \/ message.kind # "dict"
            \/ message.method.t # "string"
         THEN s
         ELSE LET method == message.method.s
                  params == IF message.params.t = "list" THEN message.params.l ELSE <<>>
                  id == IF message.id.t = "int" THEN message.id.n ELSE 0
              IN  Dispatch(s, AckCallback(id), method, params)

HandleMessageFromDevToolsFrontend(s, message) ==
    IF ~s.dispatcher THEN s
    ELSE IF \/ message.kind = "invalid"
            \/ message.kind # "dict"
            \/ message.method.t # "string"
            \/ (message.params.t # "absent" /\ message.params.t # "list")
         THEN s
         ELSE LET method == message.method.s
                  params == IF message.params.t = "list" THEN message.params.l ELSE <<>>
                  id == IF message.id.t = "int" THEN message.id.n ELSE 0
              IN  Dispatch(s, AckCallback(id), method, params)

\* The requests of a frontend for a network resource: the url, the request
\* headers and the stream id, each as its JSON text.
\* The frontend numbers its requests: the n-th has the stream id n and the
\* message id 10 + n.
LoadMessages(n) ==
    {RawMessage("dict", FieldInt(10 + n), FieldString("loadNetworkResource"),
                FieldList(<<url, <<"Accept: x">>, <<NumberTexts[n]>>>>)) : url \in URLs}

\* The messages a frontend document hands to the embedder.
RawMessages ==
    {RawMessage("invalid", FieldAbsent, FieldAbsent, FieldAbsent),
     RawMessage("list", FieldAbsent, FieldAbsent, FieldAbsent)}
    \cup {RawMessage("dict", id, method, params) :
            id \in {FieldAbsent, FieldInt(7), FieldString("x")},
            method \in {FieldAbsent, FieldInt(5), FieldString("loadCompleted"),
                        FieldString("reattach"), FieldString("dispatchProtocolMessage"),
                        FieldString("bogus")},
            params \in {FieldAbsent, FieldDict, FieldList(<<>>), FieldList(<<<<"{", "}">>>>)}}
    \cup {RawMessage("dict", FieldInt(7), FieldString("dispatchProtocolMessage"),
                     FieldList(<<c>>)) : c \in ProtocolCommands}

\* ---------------------------------------------------------------- actions

\* The session runs on one thread of a message loop.  A step is one task of
\* the loop: it starts from the loop (op.name = "idle") and runs to its end;
\* op and fx then show what ran and what it did, until TaskDone returns to
\* the loop.  op holds the step's input in the field of its type: flag for
\* a bool, str for a document, a host or a dock state, msg for a protocol
\* message of the target, raw for a message of the frontend.
NoRaw == [kind |-> "none", id |-> FieldAbsent, method |-> FieldAbsent, params |-> FieldAbsent]

Op(name) ==
    [name |-> name, flag |-> FALSE, str |-> "", msg |-> <<>>, raw |-> NoRaw,
     ldr |-> NoLoader, hdr |-> NoHeaders]
OpFlag(name, b) == [Op(name) EXCEPT !.flag = b]
OpStr(name, str) == [Op(name) EXCEPT !.str = str]
OpMsg(name, message) == [Op(name) EXCEPT !.msg = message]
OpRaw(name, message) == [Op(name) EXCEPT !.raw = message]
OpLdr(name, l) == [Op(name) EXCEPT !.ldr = l]

Step(o, s) ==
    /\ ~crashed
    /\ op.name = "idle"
    /\ Commit(s)
    /\ op' = o

\* The session is gone after its destructor: no task runs on it any more.
TaskDone ==
    /\ ~crashed
    /\ op.name \notin {"idle", "~InspectableWebContentsImpl"}
    /\ Commit(Cur)
    /\ op' = Op("idle")

Init ==
    /\ frontend_loaded_ = FALSE
    /\ can_dock_ = TRUE
    /\ dock_state_ = ""
    /\ activate_ \in BOOLEAN
    /\ managed_devtools_web_contents_ = Null
    /\ external_devtools_web_contents_ = Null
    /\ embedder_message_dispatcher_ = FALSE
    /\ agent_host_ = Null
    /\ delegate_ = FALSE
    /\ is_guest_ \in BOOLEAN
    /\ observed = Null
    /\ clients = {}
    /\ loaders_ = {}
    /\ loads_started = 0
    /\ closed_notified = FALSE
    /\ stream_log = NoLog
    /\ fx = <<>>
    /\ fault = ""
    /\ crashed = FALSE
    /\ op = Op("idle")

DoSetDelegate ==
    \E d \in BOOLEAN : Step(OpFlag("SetDelegate", d), [Cur EXCEPT !.delegate = d])

DoSetDockState ==
    \E state \in {"detach", "right"} : Step(OpStr("SetDockState", state), SetDockState(Cur, state))

DoSetDevToolsWebContents ==
    \E devtools \in ExternalDocs \cup {Null} :
        Step(OpStr("SetDevToolsWebContents", devtools), SetDevToolsWebContents(Cur, devtools))

DoShowDevTools ==
    \E activate \in BOOLEAN : Step(OpFlag("ShowDevTools", activate), ShowDevTools(Cur, activate))

DoCloseDevTools ==
    Step(Op("CloseDevTools"), CloseDevTools(Cur))

DoAttachTo ==
    \E host \in Hosts : Step(OpStr("AttachTo", host), AttachTo(Cur, host))

DoDetach ==
    Step(Op("Detach"), Detach(Cur))

\* The observed frontend document is destroyed by its owner.  The managed
\* document is owned by the session and dies only in ResetManaged.
DoWebContentsDestroyed ==
    /\ observed \in ExternalDocs
    /\ Step(OpStr("WebContentsDestroyed", observed), WebContentsDestroyed(Cur))

\* The owner of the session destroys it.
DoDestroy ==
    Step(Op("~InspectableWebContentsImpl"), Destructor(Cur))

\* A host that holds the session as a client hands it a protocol message.
DoDispatchProtocolMessage ==
    \E host \in clients, message \in Messages :
        Step(OpMsg("DispatchProtocolMessage", message), DispatchProtocolMessage(Cur, message))

\* The frontend host of the observed document hands over a message of the
\* frontend.
DoHandleMessageFromDevToolsFrontend ==
    /\ observed # Null
    /\ \E message \in RawMessages :
          Step(OpRaw("HandleMessageFromDevToolsFrontend", message),
               HandleMessageFromDevToolsFrontend(Cur, message))

\* The frontend asks for a network resource.
DoLoadNetworkResource ==
    /\ observed # Null
    /\ loads_started < MaxLoads
    /\ \E message \in LoadMessages(loads_started + 1) :
          Step(OpRaw("HandleMessageFromDevToolsFrontend", message),
               HandleMessageFromDevToolsFrontend(Cur, message))

\* timer_ of a loader fires.
DoDownloadAsStream ==
    \E l \in loaders_ :
        /\ l.phase = "timer"
        /\ Step(OpLdr("DownloadAsStream", l), DownloadAsStream(Cur, l))

\* The fetch of a loader gets the head of a response.
DoOnResponseStarted ==
    \E l \in loaders_, response_head \in ResponseHeads :
        /\ l.phase = "fetch"
        /\ Step([OpLdr("OnResponseStarted", l) EXCEPT !.hdr = response_head],
                OnResponseStarted(Cur, l, response_head))

\* The fetch of a loader gets a part of the body.
DoOnDataReceived ==
    \E l \in loaders_, chunk \in BodyChunks :
        /\ l.phase = "response"
        /\ Step([OpLdr("OnDataReceived", l) EXCEPT !.msg = chunk], OnDataReceived(Cur, l, chunk))

\* The fetch of a loader ends; it succeeds only after a response started.
DoOnComplete ==
    \E l \in loaders_, result \in FetchResults :
        /\ l.phase \in {"fetch", "response"}
        /\ result.success => l.phase = "response"
        /\ Step([OpLdr("OnComplete", l) EXCEPT !.str = result.net_error, !.flag = result.success],
                OnComplete(Cur, l, result.success, result.net_error))

Next ==
    \/ DoHandleMessageFromDevToolsFrontend
    \/ DoSetDelegate
    \/ DoSetDockState
    \/ DoSetDevToolsWebContents
    \/ DoShowDevTools
    \/ DoCloseDevTools
    \/ DoAttachTo
    \/ DoDetach
    \/ DoWebContentsDestroyed
    \/ DoDispatchProtocolMessage
    \/ DoDestroy
    \/ TaskDone

Spec == Init /\ [][Next]_vars

\* The session with a frontend that loads network resources: it is no guest,
\* its frontend is the managed document or the external document "ext1", and
\* it is shown activated.
LoaderInit ==
    /\ Init
    /\ ~is_guest_
    /\ activate_

DoSupplyFrontend ==
    \E devtools \in {"ext1", Null} :
        Step(OpStr("SetDevToolsWebContents", devtools), SetDevToolsWebContents(Cur, devtools))

DoOpenFrontend ==
    Step(OpFlag("ShowDevTools", TRUE), ShowDevTools(Cur, TRUE))

LoaderNext ==
    \/ DoSupplyFrontend
    \/ DoOpenFrontend
    \/ DoCloseDevTools
    \/ DoDestroy
    \/ DoLoadNetworkResource
    \/ DoDownloadAsStream
    \/ DoOnResponseStarted
    \/ DoOnDataReceived
    \/ DoOnComplete
    \/ TaskDone

LoaderSpec == LoaderInit /\ [][LoaderNext]_vars

\* ------------------------------------------------------------- properties

\* The fields of the session, without the record of the last step.
session ==
    <<frontend_loaded_, can_dock_, dock_state_, activate_,
      managed_devtools_web_contents_, external_devtools_web_contents_,
      embedder_message_dispatcher_, agent_host_, delegate_, is_guest_,
      observed, clients>>

\* The script calls of the last step to one function of the frontend.
ScriptCalls(function_name) ==
    SelectSeq(fx, LAMBDA e : e.kind = "js" /\ e.fn = function_name)

AllScriptCalls == SelectSeq(fx, LAMBDA e : e.kind = "js")

EffectsOn(kind, fn) == SelectSeq(fx, LAMBDA e : e.kind = kind /\ e.fn = fn)

HasFrontend == GetDevToolsWebContents(Cur) # Null

CeilDiv(a, b) == (a + b - 1) \div b

\* The last step delivered a message of the target to a loaded frontend.
DeliveredToLoadedFrontend ==
    /\ op.name = "DispatchProtocolMessage"
    /\ frontend_loaded_
    /\ HasFrontend

\* What the frontend gets as the first argument of a call.
Payload(call) == EvalStringLiteral(call.args[1])

RECURSIVE ConcatPayloads(_)
ConcatPayloads(calls) ==
    IF calls = <<>> THEN <<>> ELSE Payload(Head(calls)) \o ConcatPayloads(Tail(calls))

\* C1 as claimed: a message of length L reaches a loaded frontend as one
\* dispatchMessage call and no chunk call when L <= kMaxMessageChunkSize, and
\* as ceil(L / kMaxMessageChunkSize) dispatchMessageChunk calls and no
\* dispatchMessage call when L > kMaxMessageChunkSize.
C1_SingleCallUpToChunkSize ==
    DeliveredToLoadedFrontend =>
        LET L == Len(op.msg)
        IN  IF L <= kMaxMessageChunkSize
            THEN /\ Len(ScriptCalls("DevToolsAPI.dispatchMessage")) = 1
                 /\ Len(ScriptCalls("DevToolsAPI.dispatchMessageChunk")) = 0
            ELSE /\ Len(ScriptCalls("DevToolsAPI.dispatchMessageChunk"))
                        = CeilDiv(L, kMaxMessageChunkSize)
                 /\ Len(ScriptCalls("DevToolsAPI.dispatchMessage")) = 0

\* C1 as amended: a message of length L reaches a loaded frontend as one
\* dispatchMessage call and no chunk call when L < kMaxMessageChunkSize, and
\* as ceil(L / kMaxMessageChunkSize) dispatchMessageChunk calls and no
\* dispatchMessage call when L >= kMaxMessageChunkSize; a message of exactly
\* kMaxMessageChunkSize bytes is one chunk call.  Nothing else is executed.
C1_SingleCallBelowChunkSize ==
    DeliveredToLoadedFrontend =>
        LET L == Len(op.msg)
        IN  /\ IF L < kMaxMessageChunkSize
               THEN /\ Len(ScriptCalls("DevToolsAPI.dispatchMessage")) = 1
                    /\ Len(ScriptCalls("DevToolsAPI.dispatchMessageChunk")) = 0
               ELSE /\ Len(ScriptCalls("DevToolsAPI.dispatchMessageChunk"))
                           = CeilDiv(L, kMaxMessageChunkSize)
                    /\ Len(ScriptCalls("DevToolsAPI.dispatchMessage")) = 0
            /\ Len(fx) = Len(ScriptCalls("DevToolsAPI.dispatchMessage"))
                            + Len(ScriptCalls("DevToolsAPI.dispatchMessageChunk"))

\* A message of exactly kMaxMessageChunkSize bytes went out as one chunk.
C1_Witness ==
    /\ DeliveredToLoadedFrontend
    /\ Len(op.msg) = kMaxMessageChunkSize
    /\ Len(ScriptCalls("DevToolsAPI.dispatchMessageChunk")) = 1
    /\ Len(ScriptCalls("DevToolsAPI.dispatchMessage")) = 0

\* C2: the chunks of a split message are at most kMaxMessageChunkSize long
\* and, concatenated in the order of their delivery, are the message: the
\* i-th chunk delivered is the part of the message that starts where the
\* chunks before it end.
C2_ChunksReassemble ==
    (DeliveredToLoadedFrontend /\ Len(op.msg) >= kMaxMessageChunkSize) =>
        LET calls == ScriptCalls("DevToolsAPI.dispatchMessageChunk")
        IN  /\ \A i \in 1..Len(calls) :
                 /\ calls[i].args[1].t = "string"
                 /\ Len(Payload(calls[i])) <= kMaxMessageChunkSize
                 /\ Len(Payload(calls[i])) > 0
            /\ ConcatPayloads(calls) = op.msg

\* A message of three chunks with a double quote in it was delivered.
C2_Witness ==
    /\ DeliveredToLoadedFrontend
    /\ Len(op.msg) > 2 * kMaxMessageChunkSize
    /\ \E i \in 1..Len(op.msg) : op.msg[i] = "dq"
    /\ Len(ScriptCalls("DevToolsAPI.dispatchMessageChunk")) = 3

\* C3: of the chunk calls of one message the first, and only the first, has
\* a second argument, and it is the length of the whole message.
C3_TotalSizeOnFirstChunkOnly ==
    (DeliveredToLoadedFrontend /\ Len(op.msg) >= kMaxMessageChunkSize) =>
        LET calls == ScriptCalls("DevToolsAPI.dispatchMessageChunk")
        IN  /\ Len(calls) >= 1
            /\ \A i \in 1..Len(calls) :
                 IF i = 1
                 THEN /\ Len(calls[i].args) = 2
                      /\ calls[i].args[2] = JsonInt(Len(op.msg))
                 ELSE Len(calls[i].args) = 1

\* A message went out in more than one chunk.
C3_Witness ==
    /\ DeliveredToLoadedFrontend
    /\ Len(ScriptCalls("DevToolsAPI.dispatchMessageChunk")) >= 2
    /\ ScriptCalls("DevToolsAPI.dispatchMessageChunk")[1].args[2] = JsonInt(Len(op.msg))

\* The method of a command: the value of the key "method" of the outermost
\* object of its text, Null when it has none.
RECURSIVE MethodAtDepth(_, _)
MethodAtDepth(text, depth) ==
    IF text = <<>> THEN Null
    ELSE IF Head(text) = "{" THEN MethodAtDepth(Tail(text), depth + 1)
    ELSE IF Head(text) = "}" THEN MethodAtDepth(Tail(text), depth - 1)
    ELSE IF Head(text) = "method:" /\ depth = 1 /\ Len(text) >= 2 THEN text[2]
    ELSE MethodAtDepth(Tail(text), depth)

TopLevelMethod(text) == MethodAtDepth(text, 0)

\* The last step handed a protocol command of the frontend to
\* DispatchProtocolMessageFromDevToolsFrontend.
CommandFromFrontend ==
    /\ op.name = "HandleMessageFromDevToolsFrontend"
    /\ op.raw.kind = "dict"
    /\ op.raw.method = FieldString("dispatchProtocolMessage")
    /\ op.raw.params.t = "list"
    /\ Len(op.raw.params.l) = 1
    /\ Len(EffectsOn("dispatcher", "Dispatch")) = 1

Command == op.raw.params.l[1]

\* C4 as claimed: a command whose method is "Page.reload" is never forwarded
\* to the target, and the delegate, when there is one, is told to reload the
\* page, whatever other fields the command has and in whatever order.
C4_ReloadNeverForwarded ==
    (CommandFromFrontend /\ TopLevelMethod(Command) = "Page.reload") =>
        /\ Len(EffectsOn("host", "DispatchProtocolMessage")) = 0
        /\ delegate_ => Len(EffectsOn("delegate", "DevToolsReloadPage")) = 1

\* C5 as claimed: a command whose method is not "Page.reload" is handed
\* unchanged to the host the session is attached to, and the delegate is not
\* told to reload the page.
C5_OtherCommandsForwarded ==
    (CommandFromFrontend /\ TopLevelMethod(Command) # "Page.reload" /\ agent_host_ # Null) =>
        /\ EffectsOn("host", "DispatchProtocolMessage")
              = <<Effect("host", agent_host_, "DispatchProtocolMessage", <<JsonString(Command)>>)>>
        /\ Len(EffectsOn("delegate", "DevToolsReloadPage")) = 0

\* A message that HandleMessageFromDevToolsFrontend has to reject: not
\* parsable, no dictionary, no string "method", or a "params" that is no list.
Malformed(message) ==
    \/ message.kind \in {"invalid", "list"}
    \/ message.method.t # "string"
    \/ message.params.t \notin {"absent", "list"}

\* C6: a malformed message of the frontend reaches no handler of the
\* dispatcher, is not acknowledged, touches no collaborator and leaves every
\* field of the session as it was.
C6_MalformedDropped ==
    [][(op'.name = "HandleMessageFromDevToolsFrontend" /\ Malformed(op'.raw)) =>
          (fx' = <<>> /\ fault' = "" /\ session' = session)]_vars

\* A dictionary with a method and a "params" that is no list arrived while
\* the dispatcher was there.
C6_Witness ==
    /\ op.name = "HandleMessageFromDevToolsFrontend"
    /\ embedder_message_dispatcher_
    /\ op.raw.kind = "dict"
    /\ op.raw.method = FieldString("reattach")
    /\ op.raw.params = FieldDict
    /\ op.raw.id = FieldInt(7)
    /\ fx = <<>>

\* C7 as claimed: while GetDevToolsWebContents() is null, a step that
\* delivers to the frontend executes no script and does not go through the
\* null pointer.
C7_NoFrontendNoDelivery ==
    (op.name \in {"DispatchProtocolMessage", "HandleMessageFromDevToolsFrontend"} /\ ~HasFrontend) =>
        /\ Len(AllScriptCalls) = 0
        /\ fault # "DispatchProtocolMessage"

\* C8: the hosts that hold the session as a client are exactly the host
\* agent_host_ refers to, so at most one; AttachTo(host) detaches from the
\* host attached before, if any, and then attaches to host.
C8_OneAttachment ==
    /\ clients = (IF agent_host_ = Null THEN {} ELSE {agent_host_})
    /\ Cardinality(clients) <= 1
    /\ op.name = "AttachTo" =>
          /\ agent_host_ = op.str
          /\ \/ fx = <<Effect("host", op.str, "AttachClient", <<>>)>>
             \/ \E old \in Hosts :
                   fx = <<Effect("host", old, "DetachClient", <<>>),
                          Effect("host", op.str, "AttachClient", <<>>)>>

\* AttachTo moved the session from one host to another.
C8_Witness ==
    /\ op.name = "AttachTo"
    /\ fx = <<Effect("host", "host1", "DetachClient", <<>>),
              Effect("host", "host2", "AttachClient", <<>>)>>
    /\ clients = {"host2"}

\* C9 as claimed: an attached session has a frontend document.
C9_AttachedHasFrontend ==
    agent_host_ # Null => HasFrontend

\* C10 as claimed: CloseDevTools with a frontend present leaves the session
\* detached, not loaded and without dispatcher.
C10_CloseDetaches ==
    [][(op'.name = "CloseDevTools" /\ HasFrontend) =>
          /\ agent_host_' = Null
          /\ clients' = {}
          /\ ~frontend_loaded_'
          /\ ~embedder_message_dispatcher_']_vars

\* The fields of a state record, without the effects of the step.
Fields(s) == [s EXCEPT !.fx = <<>>, !.fault = ""]

\* C11: CloseDevTools without a frontend and Detach on a detached session
\* change no field and touch no collaborator; a second CloseDevTools and a
\* second Detach leave the fields the first one left.
C11_MisuseIsNoOp ==
    [][/\ (op'.name = "CloseDevTools" /\ ~HasFrontend) =>
             (fx' = <<>> /\ fault' = "" /\ session' = session)
       /\ (op'.name = "Detach" /\ agent_host_ = Null) =>
             (fx' = <<>> /\ fault' = "" /\ session' = session)
       /\ Fields(CloseDevTools(CloseDevTools(Cur))) = Fields(CloseDevTools(Cur))
       /\ Fields(Detach(Detach(Cur))) = Fields(Detach(Cur))]_vars

\* CloseDevTools ran on a session whose frontend had been closed before.
C11_Witness ==
    /\ op.name = "CloseDevTools"
    /\ ~HasFrontend
    /\ closed_notified
    /\ fx = <<>>

\* The frontend asked for a reattach and the dispatcher ran the handler.
ReattachFromFrontend(o) ==
    /\ o.name = "HandleMessageFromDevToolsFrontend"
    /\ o.raw.kind = "dict"
    /\ o.raw.method = FieldString("reattach")
    /\ o.raw.params \in {FieldAbsent, FieldList(<<>>)}

\* C12: Reattach detaches from the host the session is attached to and
\* attaches to it again, nothing in between; the host and the frontend
\* documents are the ones before; the callback is run exactly once, with the
\* id of the request, attached or not.
C12_ReattachSameTarget ==
    [][(ReattachFromFrontend(op') /\ embedder_message_dispatcher_) =>
          /\ agent_host_' = agent_host_
          /\ clients' = clients
          /\ managed_devtools_web_contents_' = managed_devtools_web_contents_
          /\ external_devtools_web_contents_' = external_devtools_web_contents_
          /\ observed' = observed
          /\ SelectSeq(fx', LAMBDA e : e.kind = "host")
                = (IF agent_host_ = Null THEN <<>>
                   ELSE <<Effect("host", agent_host_, "DetachClient", <<>>),
                          Effect("host", agent_host_, "AttachClient", <<>>)>>)
          /\ SelectSeq(fx', LAMBDA e : e.kind = "callback")
                = <<Effect("callback", "SendMessageAck", "Run",
                           <<JsonInt(IF op'.raw.id.t = "int" THEN op'.raw.id.n ELSE 0)>>)>>]_vars

\* A reattach on a session that is not attached was acknowledged.
C12_Witness ==
    /\ ReattachFromFrontend(op)
    /\ agent_host_ = Null
    /\ HasFrontend
    /\ Len(EffectsOn("callback", "Run")) = 1
    /\ Len(ScriptCalls("DevToolsAPI.embedderMessageAck")) = 1

\* C13 as claimed: a step runs WebContentsDestroyed at most once, the run
\* leaves the session not loaded, without external document, detached,
\* without dispatcher and not observing, tells the view delegate
\* DevToolsClosed, and does not happen when it has already run since a
\* frontend was last opened.
C13_DestroyedOncePerFrontend ==
    [][LET closed == SelectSeq(fx', LAMBDA e : e.fn = "DevToolsClosed")
       IN  /\ Len(closed) <= 1
           /\ Len(closed) = 1 =>
                 /\ ~closed_notified
                 /\ ~frontend_loaded_'
                 /\ external_devtools_web_contents_' = Null
                 /\ agent_host_' = Null
                 /\ clients' = {}
                 /\ ~embedder_message_dispatcher_'
                 /\ observed' = Null]_vars

\* The last step processed a load completion of the frontend.
LoadCompletedProcessed ==
    /\ op.name = "HandleMessageFromDevToolsFrontend"
    /\ Len(EffectsOn("delegate", "DevToolsOpened")) >= 1

\* C14 as claimed: when LoadCompleted is processed the session is attached.
C14_AttachedAtLoadCompleted ==
    LoadCompletedProcessed => agent_host_ # Null

\* C15 as claimed: LoadCompleted, with its effects, is not processed for a
\* frontend that is already loaded.
C15_LoadCompletedOnce ==
    [][LoadCompletedProcessed' => ~frontend_loaded_]_vars

\* The last step handed a request for a network resource to
\* LoadNetworkResource.
LoadRequested(o, effects) ==
    /\ o.name = "HandleMessageFromDevToolsFrontend"
    /\ o.raw.method = FieldString("loadNetworkResource")
    /\ \E i \in 1..Len(effects) : effects[i].fn = "Dispatch"

TimerStarts == EffectsOn("timer", "Start")

\* C16: LoadNetworkResource with a URL that does not parse runs the callback
\* once, inside the call, with a response whose status code is 404; it
\* starts no timer and no fetch, and the registry and the count of loads
\* are as before, so nothing is left that could retry.
C16_InvalidURLFailsAtOnce ==
    [][(LoadRequested(op', fx') /\ op'.raw.params.l[1] \notin ValidURLs) =>
          /\ SelectSeq(fx', LAMBDA e : e.kind = "callback")
                = <<Effect("callback", "SendMessageAck", "Run",
                           <<JsonInt(op'.raw.id.n), DictValue(404, FALSE, <<>>)>>)>>
          /\ \A i \in 1..Len(fx') : fx'[i].kind \notin {"timer", "loader"}
          /\ loaders_' = loaders_
          /\ loads_started' = loads_started]_vars

\* The frontend got the 404 for a URL that does not parse.
C16_Witness ==
    /\ LoadRequested(op, fx)
    /\ op.raw.params.l[1] = <<"not a url">>
    /\ ScriptCalls("DevToolsAPI.embedderMessageAck")
          = <<Effect("js", GetDevToolsWebContents(Cur), "DevToolsAPI.embedderMessageAck",
                     <<JsonInt(op.raw.id.n), DictValue(404, FALSE, <<>>)>>)>>

\* The last step was the end of a fetch attempt of the loader op.ldr.
AttemptEnded == op.name = "OnComplete"

ResourceExhaustion == ~op.flag /\ op.str = "ERR_INSUFFICIENT_RESOURCES"

\* C17: the end of an attempt starts another attempt only if the attempt
\* failed with ERR_INSUFFICIENT_RESOURCES; an attempt that succeeded or failed
\* with another error runs the callback once in that step, with the id of
\* the request, starts no timer, and leaves no loader of its load in the
\* registry.
C17_RetryOnlyOnExhaustion ==
    AttemptEnded =>
        /\ Len(TimerStarts) > 0 => ResourceExhaustion
        /\ ~ResourceExhaustion =>
              /\ EffectsOn("callback", "Run")
                    = <<Effect("callback", "SendMessageAck", "Run",
                               <<JsonInt(op.ldr.callback.id), Response(op.ldr)>>)>>
              /\ Len(TimerStarts) = 0
              /\ \A l \in loaders_ : l.load # op.ldr.load

\* A retried load ended with another error and was reported.
C17_Witness ==
    /\ AttemptEnded
    /\ op.str = "ERR_FAILED"
    /\ op.ldr.retry_delay > kInitialBackoffDelay
    /\ Len(EffectsOn("callback", "Run")) = 1
    /\ loaders_ = {}

\* C18: the first attempt of a load is scheduled with the delay 0; the
\* retry after an attempt scheduled with the delay 0 is scheduled with
\* kInitialBackoffDelay, and the retry after an attempt scheduled with the
\* delay d > 0 with d * 1.3 in whole microseconds, which is more than d.
C18_BackoffSequence ==
    /\ (LoadRequested(op, fx) /\ op.raw.params.l[1] \in ValidURLs) =>
          /\ Len(TimerStarts) = 1
          /\ TimerStarts[1].args[2] = JsonInt(0)
    /\ (AttemptEnded /\ Len(TimerStarts) > 0) =>
          LET d == op.ldr.retry_delay
              next == TimerStarts[1].args[2].num
          IN  /\ Len(TimerStarts) = 1
              /\ d = 0 => next = kInitialBackoffDelay
              /\ d > 0 => (10 * next <= 13 * d /\ 13 * d < 10 * next + 10)
              /\ next > d
              /\ \E l \in loaders_ :
                    /\ l.retry_delay = next
                    /\ l.load = op.ldr.load
                    /\ l.phase = "timer"

\* The sixth retry of a load was scheduled: 714025 us * 1.3, the fraction
\* dropped.
C18_Witness ==
    /\ AttemptEnded
    /\ op.ldr.retry_delay = 714025
    /\ Len(TimerStarts) = 1
    /\ TimerStarts[1].args[2] = JsonInt(928232)

\* C19 as claimed: no attempt is scheduled with a delay of more than
\* kMaxBackoffDelay.
C19_DelayWithinCeiling ==
    \A i \in 1..Len(TimerStarts) : TimerStarts[i].args[2].num <= kMaxBackoffDelay

\* The header mapping of a response handed to the callback has the value
\* value under the name name.
Reported(response, name, value) ==
    \E i \in 1..(Len(response.toks) - 1) :
        response.toks[i] = name /\ response.toks[i + 1] = value

\* C20 as claimed: the mapping reported at the terminal completion of a load
\* has every name and value of the header lines of the response.
C20_EveryHeaderReported ==
    (AttemptEnded /\ Len(EffectsOn("callback", "Run")) = 1) =>
        \A i \in 1..Len(op.ldr.response_headers.lines) :
            Reported(EffectsOn("callback", "Run")[1].args[2],
                     op.ldr.response_headers.lines[i].name,
                     op.ldr.response_headers.lines[i].value)

\* The responses the last step handed to the callback of a load.
CompletionResponses ==
    LET runs == EffectsOn("callback", "Run")
    IN  [i \in 1..Len(runs) |-> runs[i].args[2]]

\* C21 as claimed: every response handed to the callback of a load, the one
\* for a URL that does not parse included, is a dictionary with a status
\* code and a headers mapping.
C21_UniformResponse ==
    (LoadRequested(op, fx) \/ AttemptEnded) =>
        \A i \in 1..Len(CompletionResponses) :
            /\ CompletionResponses[i].t = "dict"
            /\ CompletionResponses[i].toks # <<>>
            /\ Head(CompletionResponses[i].toks) = "headers:"

\* The bytes of a chunk.
Bytes(chunk) == [i \in 1..Len(chunk) |-> ByteValue(chunk[i])]

\* The chunk is UTF-8 text: all its bytes are ASCII here, or 0xFF is among
\* them.
ValidUTF8(chunk) == \A i \in 1..Len(chunk) : ByteValue(chunk[i]) < 128

Base64Value(c) == (CHOOSE i \in 1..Len(base64_chars) : base64_chars[i] = c) - 1

\* What the frontend gets from a base64 text: four characters give up to
\* three bytes.
RECURSIVE Base64Decode(_)
Base64Decode(text) ==
    IF Len(text) < 4 THEN <<>>
    ELSE LET v == Base64Value(text[1]) * 262144
                    + Base64Value(text[2]) * 4096
                    + (IF text[3] # "=" THEN Base64Value(text[3]) * 64 ELSE 0)
                    + (IF text[4] # "=" THEN Base64Value(text[4]) ELSE 0)
         IN  <<v \div 65536>>
             \o (IF text[3] # "=" THEN <<(v \div 256) % 256>> ELSE <<>>)
             \o (IF text[4] # "=" THEN <<v % 256>> ELSE <<>>)
             \o Base64Decode(SubSeq(text, 5, Len(text)))

StreamWrites == ScriptCalls("DevToolsAPI.streamWrite")

\* The bytes a streamWrite call gives the frontend.
StreamPayload(call) ==
    IF call.args[3] = BoolValue(TRUE)
    THEN Base64Decode(EvalStringLiteral(call.args[2]))
    ELSE Bytes(EvalStringLiteral(call.args[2]))

\* C22: a chunk a loader receives while the session has a frontend is
\* delivered by exactly one script call, streamWrite in the frontend with
\* the stream id of the loader; a chunk that is UTF-8 text has encoded =
\* false and the chunk itself as payload, any other chunk has encoded = true
\* and a payload whose base64 decoding is the bytes of the chunk.
C22_ChunkEncoding ==
    (op.name = "OnDataReceived" /\ HasFrontend) =>
        /\ Len(StreamWrites) = 1
        /\ AllScriptCalls = StreamWrites
        /\ StreamWrites[1].target = GetDevToolsWebContents(Cur)
        /\ Len(StreamWrites[1].args) = 3
        /\ StreamWrites[1].args[1] = JsonInt(op.ldr.stream_id)
        /\ IF ValidUTF8(op.msg)
           THEN /\ StreamWrites[1].args[3] = BoolValue(FALSE)
                /\ EvalStringLiteral(StreamWrites[1].args[2]) = op.msg
           ELSE /\ StreamWrites[1].args[3] = BoolValue(TRUE)
                /\ Base64Decode(EvalStringLiteral(StreamWrites[1].args[2])) = Bytes(op.msg)

\* The chunk 61 FF 61 61 reached the frontend as "Yf9hYQ==", encoded.
C22_Witness ==
    /\ op.name = "OnDataReceived"
    /\ op.msg = <<"a", "xff", "a", "a">>
    /\ Len(StreamWrites) = 1
    /\ StreamWrites[1].args[2] = JSONWriteString(<<"Y", "f", "9", "h", "Y", "Q", "=", "=">>)
    /\ StreamWrites[1].args[3] = BoolValue(TRUE)

\* The last step was an event of the fetch of the loader op.ldr.
LoaderEvent(o) == o.name \in {"DownloadAsStream", "OnResponseStarted", "OnDataReceived", "OnComplete"}

\* C24 as claimed: CloseDevTools leaves the registry of loaders as it is, and
\* a loader that is in the registry while the session has no dispatcher (the
\* frontend it worked for was closed or destroyed) makes no script call in
\* any frontend document: neither streamWrite nor embedderMessageAck.
C24_ResultsDiscardedAfterClose ==
    [][/\ op'.name = "CloseDevTools" => loaders_' = loaders_
       /\ (LoaderEvent(op') /\ ~embedder_message_dispatcher_) =>
             \A i \in 1..Len(fx') : fx'[i].kind # "js"]_vars

\* The loaders in a registry that work for the load with the number n.
LoadersOf(registry, n) == {l \in registry : l.load = n}

\* C25: while the session lives, the registry never holds two loaders of
\* one load.  A load gets its loader in the step that handles its request
\* (with a valid URL); the end of an attempt that is retried leaves one
\* loader of the load, waiting for its timer; the loader of a load leaves the
\* registry only at the end of an attempt that runs the callback and starts
\* no timer, and a load that has no loader any more never gets one again.
C25_OneLoaderPerLoad ==
    [][op'.name # "~InspectableWebContentsImpl" =>
          /\ (LoadRequested(op', fx') /\ op'.raw.params.l[1] \in ValidURLs) =>
                /\ loads_started' = loads_started + 1
                /\ Cardinality(LoadersOf(loaders_', loads_started')) = 1
          /\ (op'.name = "OnComplete" /\ Len(SelectSeq(fx', LAMBDA e : e.kind = "timer")) > 0) =>
                /\ Cardinality(LoadersOf(loaders_', op'.ldr.load)) = 1
                /\ \A l \in LoadersOf(loaders_', op'.ldr.load) : l.phase = "timer"
          /\ \A n \in 1..MaxLoads :
                /\ Cardinality(LoadersOf(loaders_', n)) <= 1
                /\ (LoadersOf(loaders_, n) = {} /\ LoadersOf(loaders_', n) # {}) =>
                      /\ LoadRequested(op', fx')
                      /\ loads_started = n - 1
                      /\ loads_started' = n
                /\ (LoadersOf(loaders_, n) # {} /\ LoadersOf(loaders_', n) = {}) =>
                      /\ op'.name = "OnComplete"
                      /\ op'.ldr.load = n
                      /\ Len(SelectSeq(fx', LAMBDA e : e.kind = "callback")) = 1
                      /\ \A i \in 1..Len(fx') : fx'[i].kind # "timer"]_vars

\* The second retry of a load has replaced the entry of the first.
C25_Witness ==
    /\ AttemptEnded
    /\ op.ldr.retry_delay = kInitialBackoffDelay
    /\ Cardinality(LoadersOf(loaders_, op.ldr.load)) = 1
    /\ op.ldr \notin loaders_

\* The frontend asks for a network resource while no load is under way.
DoNextLoad ==
    /\ loaders_ = {}
    /\ DoLoadNetworkResource

\* One load at a time, with a managed frontend that is opened and closed.
LoaderLiveNext ==
    \/ DoOpenFrontend
    \/ DoCloseDevTools
    \/ DoDestroy
    \/ DoNextLoad
    \/ DoDownloadAsStream
    \/ DoOnResponseStarted
    \/ DoOnDataReceived
    \/ DoOnComplete
    \/ TaskDone

\* The timer of a loader fires after its delay, the fetch of a loader ends,
\* and a task of the message loop returns: the three are taken again and
\* again as long as they are possible.
LoaderLiveSpec ==
    /\ LoaderInit
    /\ [][LoaderLiveNext]_vars
    /\ SF_vars(DoDownloadAsStream)
    /\ SF_vars(DoOnComplete)
    /\ WF_vars(TaskDone)

\* The load n has ended: the end of an attempt ran its callback and left no
\* loader of it.
TerminalCompletion(n) ==
    /\ AttemptEnded
    /\ op.ldr.load = n
    /\ Len(EffectsOn("callback", "Run")) = 1
    /\ LoadersOf(loaders_, n) = {}

SessionGone == op.name = "~InspectableWebContentsImpl" \/ crashed

\* C26: a load that has a loader in the registry reaches its terminal
\* completion, whatever the outcomes of its attempts, unless the session is
\* destroyed or the process dies before.
C26_LoadTerminates ==
    \A n \in 1..MaxLoads :
        (LoadersOf(loaders_, n) # {}) ~> (TerminalCompletion(n) \/ SessionGone)

\* A load ended after the attempt scheduled beyond the ceiling failed with
\* resource exhaustion too.
C26_Witness ==
    /\ TerminalCompletion(op.ldr.load)
    /\ ResourceExhaustion
    /\ op.ldr.retry_delay >= kMaxBackoffDelay

\* The runs of a DispatchCallback among the effects of a step.
CallbackRuns(effects) == SelectSeq(effects, LAMBDA e : e.kind = "callback")

\* C27: the loader a request with a valid URL creates holds the callback
\* bound to the id of the request, and the step runs no callback; every
\* event of a loader that leaves a loader of its load in the registry runs
\* no callback and leaves that loader with the same callback; the end of an
\* attempt that is not retried runs the callback of the loader once, with
\* its id, and an acknowledgement that reaches a frontend in that step
\* carries this id.
C27_CallbackOnceAtCompletion ==
    [][/\ (LoadRequested(op', fx') /\ op'.raw.params.l[1] \in ValidURLs) =>
             /\ CallbackRuns(fx') = <<>>
             /\ \A l \in LoadersOf(loaders_', loads_started') :
                   l.callback = AckCallback(op'.raw.id.n)
       /\ (LoaderEvent(op') /\ LoadersOf(loaders_', op'.ldr.load) # {}) =>
             /\ CallbackRuns(fx') = <<>>
             /\ \A i \in 1..Len(fx') : fx'[i].fn # "DevToolsAPI.embedderMessageAck"
             /\ \A l \in LoadersOf(loaders_', op'.ldr.load) : l.callback = op'.ldr.callback
       /\ (LoaderEvent(op') /\ LoadersOf(loaders_', op'.ldr.load) = {}) =>
             /\ op'.name = "OnComplete"
             /\ Len(CallbackRuns(fx')) = 1
             /\ CallbackRuns(fx')[1].args[1] = JsonInt(op'.ldr.callback.id)
             /\ \A i \in 1..Len(fx') :
                   fx'[i].fn = "DevToolsAPI.embedderMessageAck" =>
                       fx'[i].args[1] = JsonInt(op'.ldr.callback.id)
             /\ Len(SelectSeq(fx', LAMBDA e : e.fn = "DevToolsAPI.embedderMessageAck")) <= 1]_vars

\* The request with the id 11 was acknowledged in the frontend after two
\* retries.
C27_Witness ==
    /\ AttemptEnded
    /\ op.ldr.retry_delay = 325000
    /\ op.ldr.callback = AckCallback(11)
    /\ Len(ScriptCalls("DevToolsAPI.embedderMessageAck")) = 1
    /\ ScriptCalls("DevToolsAPI.embedderMessageAck")[1].args[1] = JsonInt(11)

\* C28: ShowDevTools on a session that has a dispatcher (its frontend is
\* opening or loaded) changes no field of the session, frontend_loaded_ and
\* activate_ among them; all it does is view_->ShowDevTools(activate) when
\* the frontend is the managed document: no document is created, no host is
\* detached or attached and nothing is navigated.
C28_ShowOnOpenSession ==
    [][(op'.name = "ShowDevTools" /\ embedder_message_dispatcher_) =>
          /\ session' = session
          /\ fx' = IF managed_devtools_web_contents_ # Null
                   THEN <<Effect("view", "view_", "ShowDevTools", <<BoolArg(op'.flag)>>)>>
                   ELSE <<>>]_vars

\* A loaded managed frontend was shown again with the other activate flag.
C28_Witness ==
    /\ op.name = "ShowDevTools"
    /\ frontend_loaded_
    /\ op.flag # activate_
    /\ fx = <<Effect("view", "view_", "ShowDevTools", <<BoolArg(op.flag)>>)>>

\* C29 as claimed: whenever frontend_loaded_ is set, the session has a
\* frontend document and a dispatcher.
C29_LoadedHasFrontend ==
    frontend_loaded_ => (HasFrontend /\ embedder_message_dispatcher_)

\* --------------------------------------- the stream as the frontend gets it

\* The streamWrite calls among the effects of a step: the stream id and the
\* bytes each gives a frontend.
WritesOf(effects) ==
    LET calls == SelectSeq(effects, LAMBDA e : e.kind = "js" /\ e.fn = "DevToolsAPI.streamWrite")
    IN  [i \in 1..Len(calls) |-> [id |-> calls[i].args[1].num, bytes |-> StreamPayload(calls[i])]]

\* The frontend asks for a network resource while no load is under way; the
\* record of the stream starts anew.
DoStreamLoad ==
    /\ observed # Null
    /\ loads_started < MaxLoads
    /\ loaders_ = {}
    /\ \E message \in LoadMessages(loads_started + 1) :
          Step(OpRaw("HandleMessageFromDevToolsFrontend", message),
               [HandleMessageFromDevToolsFrontend(Cur, message) EXCEPT !.log = NoLog])

\* The fetch of a loader gets a part of the body.
DoStreamData ==
    \E l \in loaders_, chunk \in BodyChunks :
        /\ l.phase = "response"
        /\ stream_log.chunks < MaxChunks
        /\ LET s == OnDataReceived(Cur, l, chunk)
           IN  Step([OpLdr("OnDataReceived", l) EXCEPT !.msg = chunk],
                    [s EXCEPT !.log = [@ EXCEPT !.body = @ \o Bytes(chunk),
                                                !.chunks = @ + 1,
                                                !.writes = @ \o WritesOf(s.fx)]])

\* The fetch of a loader ends; the attempt that follows a retry has
\* received nothing yet.
DoStreamComplete ==
    \E l \in loaders_, result \in FetchResults :
        /\ l.phase \in {"fetch", "response"}
        /\ result.success => l.phase = "response"
        /\ LET s == OnComplete(Cur, l, result.success, result.net_error)
           IN  Step([OpLdr("OnComplete", l) EXCEPT !.str = result.net_error,
                                                   !.flag = result.success],
                    IF \E n \in s.loaders : n.load = l.load
                    THEN [s EXCEPT !.log = [@ EXCEPT !.body = <<>>, !.first = Len(s.log.writes)]]
                    ELSE s)

\* One load at a time with a frontend that stays open, and the record of
\* what the frontend gets of it.
StreamNext ==
    \/ DoOpenFrontend
    \/ DoStreamLoad
    \/ DoDownloadAsStream
    \/ DoOnResponseStarted
    \/ DoStreamData
    \/ DoStreamComplete
    \/ TaskDone

StreamSpec == LoaderInit /\ [][StreamNext]_vars

\* The last step ended the load of op.ldr with success.
LoadSucceeded == AttemptEnded /\ op.flag

\* The streamWrite calls of the attempt that ended last.
AttemptWrites == SubSeq(stream_log.writes, stream_log.first + 1, Len(stream_log.writes))

Min(a, b) == IF a < b THEN a ELSE b

\* C23 as claimed: when a load succeeds, the body of length L its last
\* attempt received has reached the frontend as ceil(L /
\* kMaxMessageChunkSize) streamWrite calls with the stream id of the load,
\* call i with the bytes from offset (i - 1) * kMaxMessageChunkSize on.
C23_BodyInCeilChunks ==
    LoadSucceeded =>
        /\ Len(AttemptWrites) = CeilDiv(Len(stream_log.body), kMaxMessageChunkSize)
        /\ \A i \in 1..Len(AttemptWrites) :
              /\ AttemptWrites[i].id = op.ldr.stream_id
              /\ AttemptWrites[i].bytes
                    = SubSeq(stream_log.body, (i - 1) * kMaxMessageChunkSize + 1,
                             Min(i * kMaxMessageChunkSize, Len(stream_log.body)))

RECURSIVE ConcatBytes(_)
ConcatBytes(writes) ==
    IF writes = <<>> THEN <<>> ELSE Head(writes).bytes \o ConcatBytes(Tail(writes))

\* C30 as claimed: when a load succeeds, the bytes of all streamWrite calls
\* made for it since the call of LoadNetworkResource, in the order of the
\* calls, are the body its last attempt received, once.
C30_BodyDeliveredOnce ==
    LoadSucceeded =>
        /\ \A i \in 1..Len(stream_log.writes) : stream_log.writes[i].id = op.ldr.stream_id
        /\ ConcatBytes(stream_log.writes) = stream_log.body

=============================================================================
